---- MODULE Spec2Model ----
(***************************************************************************)
(* A model of the PPO agent of PPO_attack.py: the trajectory memory        *)
(* (PPOMemory), the agent's store / act / learn (PPOAgent) and the         *)
(* episode loop of ppo_inversion that drives them.                         *)
(*                                                                         *)
(* Reals are fixed-point integers with Scale units per 1.0, wrapped in a   *)
(* record that also carries NaN, which torch produces for the standard     *)
(* deviation of fewer than two samples.  The networks are opaque: their    *)
(* parameters are the number of optimizer steps applied so far, and the    *)
(* log-probabilities the actor returns are drawn from a small set.         *)
(***************************************************************************)
EXTENDS Integers, Sequences, FiniteSets, TLC

(***************************************************************************)
(* Bounds of the model.                                                    *)
(***************************************************************************)
MaxBuf == 3        \* longest buffer the free caller builds
MaxBatch == 2      \* batch_size ranges over 1..MaxBatch
MaxEpochs == 2     \* n_epochs ranges over 0..MaxEpochs
MaxParams == 1     \* the free caller stops calling learn once params reaches it
MaxStep == 3       \* max_step of ppo_inversion ranges over 1..MaxStep
MaxEpisodes == 3   \* max_episodes of ppo_inversion

(***************************************************************************)
(* Program constants, in fixed point.                                      *)
(***************************************************************************)
Scale == 1000      \* units per 1.0
Gamma == 990       \* gamma = 0.99
GaeLambda == 950   \* gae_lambda = 0.95
ClipEpsilon == 200 \* clip_epsilon = 0.2
EpsStd == 1        \* the 1e-8 added to a standard deviation: one unit

VARIABLES
    states, actions, rewards, values, log_probs,  \* PPOMemory's five lists
    batch_size, n_epochs, clip_epsilon,           \* constructor arguments
    params,          \* optimizer steps applied to actor and critic so far
    pc,              \* position inside learn(); "idle" outside it
    last,            \* the operation the latest step belonged to
    t_states, t_rewards, t_values, t_old_log_probs,   \* learn's tensors
    advantages,      \* learn's advantages tensor
    epoch,           \* completed iterations of the epoch loop
    start_idx,       \* the chunk loop's variable
    batch_indices,   \* the permutation of the current epoch
    chunks,          \* the batch_indices_subset values of the current epoch
    ratios,          \* the ratios tensor of the latest chunk
    surr,            \* torch.min(surr1, surr2) of the latest chunk
    updates,         \* optimizer step pairs of the current learn() call
    clears,          \* memory.clear() calls of the current learn() call
    batches,         \* what the latest generate_batches() returned
    stored,          \* the transitions passed to store since the last clear
    dpc, i_episode, t, max_step, max_episodes     \* ppo_inversion

memVars == <<states, actions, rewards, values, log_probs>>
cfgVars == <<batch_size, n_epochs, clip_epsilon>>
learnVars == <<t_states, t_rewards, t_values, t_old_log_probs, advantages,
               epoch, start_idx, batch_indices, chunks, ratios, surr,
               updates, clears>>
drvVars == <<dpc, i_episode, t, max_step, max_episodes>>
vars == <<memVars, cfgVars, params, pc, last, learnVars, batches, stored, drvVars>>

(***************************************************************************)
(* Fixed-point reals with NaN.                                             *)
(***************************************************************************)
Num(v) == [nan |-> FALSE, v |-> v]
NaN == [nan |-> TRUE, v |-> 0]

FAdd(x, y) == IF x.nan \/ y.nan THEN NaN ELSE Num(x.v + y.v)
FSub(x, y) == IF x.nan \/ y.nan THEN NaN ELSE Num(x.v - y.v)
FMul(x, y) == IF x.nan \/ y.nan THEN NaN ELSE Num((x.v * y.v) \div Scale)
FDiv(x, y) == IF x.nan \/ y.nan THEN NaN ELSE Num((x.v * Scale) \div y.v)
FMin(x, y) == IF x.nan \/ y.nan THEN NaN ELSE IF x.v <= y.v THEN x ELSE y
FMax(x, y) == IF x.nan \/ y.nan THEN NaN ELSE IF x.v >= y.v THEN x ELSE y

\* torch.clamp(x, lo, hi) = min(max(x, lo), hi)
Clamp(x, lo, hi) == FMin(FMax(x, lo), hi)

\* F applied to v, with v evaluated once
Bind(v, F(_)) == CHOOSE y \in {F(u) : u \in {v}} : TRUE

\* the integer square root: the largest r with r * r <= n
RECURSIVE ISqrt(_)
ISqrt(n) ==
    IF n < 2 THEN n
    ELSE CHOOSE r \in {2 * q + d : q \in {ISqrt(n \div 4)}, d \in {0, 1}} :
             r * r <= n /\ (r + 1) * (r + 1) > n

RECURSIVE SumV(_, _)
SumV(x, i) == IF i = 0 THEN 0 ELSE x[i].v + SumV(x, i - 1)

AnyNaN(x) == \E i \in 1..Len(x) : x[i].nan

\* Tensor.mean(): NaN for an empty tensor
Mean(x) ==
    IF Len(x) = 0 \/ AnyNaN(x) THEN NaN
    ELSE Num(SumV(x, Len(x)) \div Len(x))

RECURSIVE SumSqDev(_, _, _)
SumSqDev(x, m, i) ==
    IF i = 0 THEN 0
    ELSE (x[i].v - m) * (x[i].v - m) + SumSqDev(x, m, i - 1)

\* Tensor.std(): the unbiased estimate, NaN for fewer than two elements
Std(x) ==
    IF Len(x) < 2 \/ AnyNaN(x) THEN NaN
    ELSE Bind(Mean(x).v, LAMBDA m :
           Bind(SumSqDev(x, m, Len(x)) \div (Len(x) - 1), LAMBDA var :
             Num(ISqrt(var))))

\* (x - x.mean()) / (x.std() + 1e-8)
Normalize(x) ==
    Bind(Mean(x), LAMBDA m :
      Bind(FAdd(Std(x), Num(EpsStd)), LAMBDA s :
        [i \in 1..Len(x) |-> FDiv(FSub(x[i], m), s)]))

\* torch.FloatTensor(np.array(list))
Tensor(xs) == [i \in 1..Len(xs) |-> Num(xs[i])]

(***************************************************************************)
(* torch.exp, as the Taylor series of e^x summed to ExpTerms terms.        *)
(***************************************************************************)
ExpTerms == 12

\* x^k / k!
RECURSIVE ExpTerm(_, _)
ExpTerm(x, k) ==
    IF k = 0 THEN Scale ELSE (ExpTerm(x, k - 1) * x) \div (Scale * k)

RECURSIVE ExpSeries(_, _)
ExpSeries(x, k) ==
    IF k = 0 THEN ExpTerm(x, 0) ELSE ExpSeries(x, k - 1) + ExpTerm(x, k)

Exp(x) ==
    Bind(x, LAMBDA u : IF u.nan THEN NaN ELSE Num(ExpSeries(u.v, ExpTerms)))

(***************************************************************************)
(* Python and numpy helpers.                                               *)
(***************************************************************************)
MinI(a, b) == IF a <= b THEN a ELSE b

\* seq[i:j] for 0 <= i <= j: the end is clamped to the length
PySlice(seq, i, j) == SubSeq(seq, i + 1, MinI(j, Len(seq)))

\* np.arange(0, n, step) and range(0, n, step), step >= 1
Arange(n, step) == [k \in 1..((n + step - 1) \div step) |-> (k - 1) * step]

\* what np.random.shuffle(np.arange(n)) and np.random.permutation(n) can give
Perms(n) ==
    {p \in [1..n -> 0..(n - 1)] : \A i, j \in 1..n : p[i] = p[j] => i = j}

(***************************************************************************)
(* The transitions a caller stores: state and action are identifiers,      *)
(* reward, value and log_prob are fixed-point reals.                       *)
(***************************************************************************)
Transitions ==
    { [state |-> 1, action |-> 1, reward |-> 2 * Scale, value |-> 500, log_prob |-> 0],
      [state |-> 2, action |-> 2, reward |-> 0,         value |-> 250, log_prob |-> 0 - Scale] }

\* the log-probabilities the current actor may give the actions of a chunk
NewLogProbs == {0 - Scale, 0}

(***************************************************************************)
(* PPOMemory                                                               *)
(***************************************************************************)
\* memory_store with the append to log_probs left out
MemoryStoreNoLogProb(tr) ==
    /\ states' = Append(states, tr.state)
    /\ actions' = Append(actions, tr.action)
    /\ rewards' = Append(rewards, tr.reward)
    /\ values' = Append(values, tr.value)
    /\ log_probs' = log_probs

\* memory_store inserting at the front
MemoryStorePrepend(tr) ==
    /\ states' = <<tr.state>> \o states
    /\ actions' = <<tr.action>> \o actions
    /\ rewards' = <<tr.reward>> \o rewards
    /\ values' = <<tr.value>> \o values
    /\ log_probs' = <<tr.log_prob>> \o log_probs

\* PPOMemory.store
memory_store(tr) ==
    /\ states' = Append(states, tr.state)
    /\ actions' = Append(actions, tr.action)
    /\ rewards' = Append(rewards, tr.reward)
    /\ values' = Append(values, tr.value)
    /\ log_probs' = Append(log_probs, tr.log_prob)

\* memory_clear with the reset of log_probs left out
MemoryClearKeepsLogProbs ==
    /\ states' = <<>>
    /\ actions' = <<>>
    /\ rewards' = <<>>
    /\ values' = <<>>
    /\ log_probs' = log_probs

\* PPOMemory.clear
memory_clear ==
    /\ states' = <<>>
    /\ actions' = <<>>
    /\ rewards' = <<>>
    /\ values' = <<>>
    /\ log_probs' = <<>>

\* PPOMemory.generate_batches, for the shuffled indices
generate_batches(indices) ==
    LET n_states == Len(states)
        batch_start == Arange(n_states, batch_size)
    IN  [k \in 1..Len(batch_start) |->
            PySlice(indices, batch_start[k], batch_start[k] + batch_size)]

(***************************************************************************)
(* PPOAgent.learn, piece by piece                                          *)
(***************************************************************************)
\* learn_guard letting a buffer one short of batch_size through
LearnGuardOneShort == Len(states) < batch_size - 1

\* learn_guard also holding back a buffer of exactly batch_size
LearnGuardInclusive == Len(states) <= batch_size

\* the guard of learn: too few transitions
learn_guard == Len(states) < batch_size

\* GaeLoop bootstrapping the last step with its own value instead of 0
RECURSIVE GaeLoopBootstrap(_, _, _, _, _)
GaeLoopBootstrap(rew, val, tt, last_gae, adv) ==
    IF tt < 0 THEN adv
    ELSE LET next_value == IF tt = Len(rew) - 1 THEN val[tt + 1] ELSE val[tt + 2]
             delta == FSub(FAdd(rew[tt + 1], FMul(Num(Gamma), next_value)),
                           val[tt + 1])
             gae == FAdd(delta,
                         FMul(FMul(Num(Gamma), Num(GaeLambda)), last_gae))
         IN  GaeLoopBootstrap(rew, val, tt - 1, gae, [adv EXCEPT ![tt + 1] = gae])

\* one pass of the backward loop over t (0-based), from t down to 0
RECURSIVE GaeLoop(_, _, _, _, _)
GaeLoop(rew, val, tt, last_gae, adv) ==
    IF tt < 0 THEN adv
    ELSE LET next_value == IF tt = Len(rew) - 1 THEN Num(0) ELSE val[tt + 2]
             delta == FSub(FAdd(rew[tt + 1], FMul(Num(Gamma), next_value)),
                           val[tt + 1])
             gae == FAdd(delta,
                         FMul(FMul(Num(Gamma), Num(GaeLambda)), last_gae))
         IN  GaeLoop(rew, val, tt - 1, gae, [adv EXCEPT ![tt + 1] = gae])

\* the advantages before normalization
ComputeGae(rew, val) ==
    GaeLoop(rew, val, Len(rew) - 1, Num(0), [i \in 1..Len(rew) |-> Num(0)])

\* ClippedSurrogate taking the larger of the two products
ClippedSurrogateMax(r, adv, eps) ==
    [k \in 1..Len(r) |->
        LET surr1 == FMul(r[k], adv[k])
            surr2 == FMul(Clamp(r[k], Num(Scale - eps), Num(Scale + eps)), adv[k])
        IN  FMax(surr1, surr2)]

\* torch.min(surr1, surr2), per sample of a chunk
ClippedSurrogate(r, adv, eps) ==
    [k \in 1..Len(r) |->
        LET surr1 == FMul(r[k], adv[k])
            surr2 == FMul(Clamp(r[k], Num(Scale - eps), Num(Scale + eps)), adv[k])
        IN  FMin(surr1, surr2)]

\* ChunkAt with a slice one index short
ChunkAtShort(perm, start) == PySlice(perm, start, start + batch_size - 1)

\* the chunk of the permutation the update at start_idx works on
ChunkAt(perm, start) == PySlice(perm, start, start + batch_size)

\* ChunkLoopHas running the loop body on full chunks only
ChunkLoopFullOnly(start) == start + batch_size <= Len(t_states)

\* range(0, len(states), batch_size) yields start
ChunkLoopHas(start) == start < Len(t_states)

\* the locals of learn, as they are outside a call
ResetLocals ==
    /\ t_states' = <<>>
    /\ t_rewards' = <<>>
    /\ t_values' = <<>>
    /\ t_old_log_probs' = <<>>
    /\ advantages' = <<>>
    /\ epoch' = 0
    /\ start_idx' = 0
    /\ batch_indices' = <<>>
    /\ chunks' = <<>>
    /\ ratios' = <<>>
    /\ surr' = <<>>

\* LearnNoop dropping the transitions it does not use
LearnNoopClears ==
    /\ pc = "idle"
    /\ learn_guard
    /\ memory_clear
    /\ stored' = <<>>
    /\ last' = "learn_noop"
    /\ updates' = 0
    /\ clears' = 0
    /\ batches' = <<>>
    /\ UNCHANGED <<cfgVars, params, pc>>
    /\ UNCHANGED <<t_states, t_rewards, t_values, t_old_log_probs, advantages,
                   epoch, start_idx, batch_indices, chunks, ratios, surr>>

\* learn() with fewer than batch_size transitions: return at once
LearnNoop ==
    /\ pc = "idle"
    /\ learn_guard
    /\ last' = "learn_noop"
    /\ updates' = 0
    /\ clears' = 0
    /\ batches' = <<>>
    /\ UNCHANGED <<memVars, cfgVars, params, pc, stored>>
    /\ UNCHANGED <<t_states, t_rewards, t_values, t_old_log_probs, advantages,
                   epoch, start_idx, batch_indices, chunks, ratios, surr>>

\* learn() past the guard: the tensors, and the rewards normalized
LearnBegin ==
    /\ pc = "idle"
    /\ ~learn_guard
    /\ t_states' = states
    /\ t_rewards' = Normalize(Tensor(rewards))
    /\ t_values' = Tensor(values)
    /\ t_old_log_probs' = Tensor(log_probs)
    /\ advantages' = [i \in 1..Len(rewards) |-> Num(0)]
    /\ updates' = 0
    /\ clears' = 0
    /\ batches' = <<>>
    /\ pc' = "gae"
    /\ last' = "learn"
    /\ UNCHANGED <<memVars, cfgVars, params, stored>>
    /\ UNCHANGED <<epoch, start_idx, batch_indices, chunks, ratios, surr>>

\* the call of learn()
LearnCall == LearnNoop \/ LearnBegin

\* the advantage loop
LearnGae ==
    /\ pc = "gae"
    /\ advantages' = ComputeGae(t_rewards, t_values)
    /\ pc' = "normalize"
    /\ UNCHANGED <<memVars, cfgVars, params, last, batches, stored, drvVars>>
    /\ UNCHANGED <<t_states, t_rewards, t_values, t_old_log_probs, epoch,
                   start_idx, batch_indices, chunks, ratios, surr, updates, clears>>

\* the advantages normalized; the epoch loop starts
LearnNormalize ==
    /\ pc = "normalize"
    /\ advantages' = Normalize(advantages)
    /\ epoch' = 0
    /\ pc' = "epochs"
    /\ UNCHANGED <<memVars, cfgVars, params, last, batches, stored, drvVars>>
    /\ UNCHANGED <<t_states, t_rewards, t_values, t_old_log_probs,
                   start_idx, batch_indices, chunks, ratios, surr, updates, clears>>

\* an epoch starts: a fresh permutation
EpochBegin ==
    /\ pc = "epochs"
    /\ epoch < n_epochs
    /\ \E p \in Perms(Len(t_states)) : batch_indices' = p
    /\ start_idx' = 0
    /\ chunks' = <<>>
    /\ pc' = "chunks"
    /\ UNCHANGED <<memVars, cfgVars, params, last, batches, stored, drvVars>>
    /\ UNCHANGED <<t_states, t_rewards, t_values, t_old_log_probs, advantages,
                   epoch, ratios, surr, updates, clears>>

\* one iteration of the chunk loop: the losses and one step of each optimizer
UpdateStep ==
    /\ pc = "chunks"
    /\ ChunkLoopHas(start_idx)
    /\ LET batch_indices_subset == ChunkAt(batch_indices, start_idx)
           m == Len(batch_indices_subset)
           advantages_batch == [k \in 1..m |-> advantages[batch_indices_subset[k] + 1]]
           old_log_probs_batch == [k \in 1..m |-> t_old_log_probs[batch_indices_subset[k] + 1]]
       IN  /\ \E new_log_prob \in NewLogProbs :
                ratios' = [k \in 1..m |->
                             Exp(FSub(Num(new_log_prob), old_log_probs_batch[k]))]
           /\ surr' = ClippedSurrogate(ratios', advantages_batch, clip_epsilon)
           /\ chunks' = Append(chunks, batch_indices_subset)
    /\ params' = params + 1
    /\ updates' = updates + 1
    /\ start_idx' = start_idx + batch_size
    /\ UNCHANGED <<memVars, cfgVars, pc, last, batches, stored, drvVars>>
    /\ UNCHANGED <<t_states, t_rewards, t_values, t_old_log_probs, advantages,
                   epoch, batch_indices, clears>>

\* the chunk loop is over: next epoch.  What the finished epoch left in its
\* loop variables is never read again and is dropped here.
EpochEnd ==
    /\ pc = "chunks"
    /\ ~ChunkLoopHas(start_idx)
    /\ epoch' = epoch + 1
    /\ start_idx' = 0
    /\ batch_indices' = <<>>
    /\ chunks' = <<>>
    /\ ratios' = <<>>
    /\ surr' = <<>>
    /\ pc' = "epochs"
    /\ UNCHANGED <<memVars, cfgVars, params, last, batches, stored, drvVars>>
    /\ UNCHANGED <<t_states, t_rewards, t_values, t_old_log_probs, advantages,
                   updates, clears>>

\* the epoch loop is over: self.memory.clear() and return
LearnClear ==
    /\ pc = "epochs"
    /\ epoch >= n_epochs
    /\ memory_clear
    /\ clears' = clears + 1
    /\ stored' = <<>>
    /\ ResetLocals
    /\ pc' = "idle"
    /\ last' = "learn_end"
    /\ UNCHANGED <<cfgVars, params, batches, updates, drvVars>>

\* the steps inside a learn() call
LearnStep ==
    \/ LearnGae
    \/ LearnNormalize
    \/ EpochBegin
    \/ UpdateStep
    \/ EpochEnd
    \/ LearnClear

(***************************************************************************)
(* PPOAgent.store and PPOAgent.act                                         *)
(***************************************************************************)
\* PPOAgent.store
store(tr) ==
    /\ memory_store(tr)
    /\ stored' = Append(stored, tr)
    /\ last' = "store"
    /\ batches' = <<>>
    /\ UNCHANGED <<cfgVars, params, pc, learnVars>>

\* PPOAgent.act: the networks are evaluated, nothing is written
act ==
    /\ last' = "act"
    /\ batches' = <<>>
    /\ UNCHANGED <<memVars, cfgVars, params, pc, learnVars, stored>>

(***************************************************************************)
(* The agent's interface, called by a free caller.                         *)
(***************************************************************************)
Store ==
    /\ pc = "idle"
    /\ Len(states) < MaxBuf
    /\ \E tr \in Transitions : store(tr)
    /\ UNCHANGED drvVars

Act ==
    /\ pc = "idle"
    /\ act
    /\ UNCHANGED drvVars

\* PPOMemory.clear called from outside learn
Clear ==
    /\ pc = "idle"
    /\ memory_clear
    /\ stored' = <<>>
    /\ last' = "clear"
    /\ batches' = <<>>
    /\ UNCHANGED <<cfgVars, params, pc, learnVars, drvVars>>

\* PPOMemory.generate_batches called from outside learn
GenerateBatches ==
    /\ pc = "idle"
    /\ \E indices \in Perms(Len(states)) : batches' = generate_batches(indices)
    /\ last' = "generate_batches"
    /\ UNCHANGED <<memVars, cfgVars, params, pc, learnVars, stored, drvVars>>

\* PPOAgent.learn called by the free caller
Learn ==
    /\ params < MaxParams
    /\ LearnCall
    /\ UNCHANGED drvVars

\* a fresh agent
FreshAgent ==
    /\ states = <<>> /\ actions = <<>> /\ rewards = <<>>
    /\ values = <<>> /\ log_probs = <<>>
    /\ batch_size \in 1..MaxBatch
    /\ n_epochs \in 0..MaxEpochs
    /\ params = 0
    /\ pc = "idle"
    /\ last = "init"
    /\ t_states = <<>> /\ t_rewards = <<>> /\ t_values = <<>>
    /\ t_old_log_probs = <<>> /\ advantages = <<>>
    /\ epoch = 0 /\ start_idx = 0 /\ batch_indices = <<>> /\ chunks = <<>>
    /\ ratios = <<>> /\ surr = <<>> /\ updates = 0 /\ clears = 0
    /\ batches = <<>>
    /\ stored = <<>>

Init ==
    /\ FreshAgent
    /\ clip_epsilon = ClipEpsilon
    /\ dpc = "api" /\ i_episode = 0 /\ t = 0 /\ max_step = 0 /\ max_episodes = 0

Next ==
    \/ Store
    \/ Act
    \/ Clear
    \/ GenerateBatches
    \/ Learn
    \/ LearnStep

Spec == Init /\ [][Next]_vars

(***************************************************************************)
(* ppo_inversion: the episode loop.                                        *)
(***************************************************************************)
EvalPeriod == 100

\* for i_episode in range(1, max_episodes + 1): a new episode
InvEpisode ==
    /\ dpc = "episode"
    /\ i_episode <= max_episodes
    /\ t' = 0
    /\ dpc' = "step"
    /\ UNCHANGED <<memVars, cfgVars, params, pc, last, learnVars, batches, stored>>
    /\ UNCHANGED <<i_episode, max_step, max_episodes>>

\* for t in range(max_step): agent.act(state)
InvAct ==
    /\ dpc = "step"
    /\ t < max_step
    /\ act
    /\ dpc' = "store"
    /\ UNCHANGED <<i_episode, t, max_step, max_episodes>>

\* the transition step tt of an episode yields: the generator, the classifier
\* and the networks are fixed functions, here of the step number alone
EnvTransition(tt) == CHOOSE tr \in Transitions : tr.state = (tt % 2) + 1

\* the reward is computed and the transition stored
InvStore ==
    /\ dpc = "store"
    /\ store(EnvTransition(t))
    /\ t' = t + 1
    /\ dpc' = "step"
    /\ UNCHANGED <<i_episode, max_step, max_episodes>>

\* after the steps of the episode: agent.learn()
InvLearn ==
    /\ dpc = "step"
    /\ t >= max_step
    /\ LearnCall
    /\ dpc' = "evaluate"
    /\ UNCHANGED <<i_episode, t, max_step, max_episodes>>

\* learn() has returned and the policy is evaluated: agent.act, max_step times
InvEvaluate ==
    /\ dpc = "evaluate"
    /\ pc = "idle"
    /\ i_episode % EvalPeriod = 0 \/ i_episode = max_episodes
    /\ act
    /\ i_episode' = i_episode + 1
    /\ dpc' = "episode"
    /\ UNCHANGED <<t, max_step, max_episodes>>

\* learn() has returned and this episode is not evaluated
InvNoEvaluate ==
    /\ dpc = "evaluate"
    /\ pc = "idle"
    /\ ~(i_episode % EvalPeriod = 0 \/ i_episode = max_episodes)
    /\ i_episode' = i_episode + 1
    /\ dpc' = "episode"
    /\ UNCHANGED <<memVars, cfgVars, params, pc, last, learnVars, batches, stored>>
    /\ UNCHANGED <<t, max_step, max_episodes>>

\* the loop is over
InvReturn ==
    /\ dpc = "episode"
    /\ i_episode > max_episodes
    /\ dpc' = "done"
    /\ UNCHANGED <<memVars, cfgVars, params, pc, last, learnVars, batches, stored>>
    /\ UNCHANGED <<i_episode, t, max_step, max_episodes>>

InvInit ==
    /\ FreshAgent
    /\ clip_epsilon = ClipEpsilon
    /\ dpc = "episode"
    /\ i_episode = 1
    /\ t = 0
    /\ max_step \in 1..MaxStep
    /\ max_episodes = MaxEpisodes

InvNext ==
    \/ InvEpisode
    \/ InvAct
    \/ InvStore
    \/ InvLearn
    \/ LearnStep
    \/ InvEvaluate
    \/ InvNoEvaluate
    \/ InvReturn

InvSpec == InvInit /\ [][InvNext]_vars

\* the loop is sequential code: it runs until it returns
FairInvSpec == InvSpec /\ WF_vars(InvNext)

(***************************************************************************)
(* The clipped surrogate on its own: one sample, inputs drawn from sets.   *)
(***************************************************************************)
SurrRatios == {1, 100, 500, 800, 1000, 1200, 1500, 3000}
SurrAdvantages == {0 - 1500, 0 - 1, 0, 1, 700, 1500}
SurrEpsilons == {100, 200, 500, 900}

SurrInit ==
    /\ states = <<>> /\ actions = <<>> /\ rewards = <<>>
    /\ values = <<>> /\ log_probs = <<>>
    /\ batch_size = 1
    /\ n_epochs = 1
    /\ clip_epsilon \in SurrEpsilons
    /\ params = 0
    /\ pc = "surrogate"
    /\ last = "init"
    /\ t_states = <<>> /\ t_rewards = <<>> /\ t_values = <<>>
    /\ t_old_log_probs = <<>>
    /\ \E a \in SurrAdvantages : advantages = <<Num(a)>>
    /\ epoch = 0 /\ start_idx = 0 /\ batch_indices = <<>> /\ chunks = <<>>
    /\ \E r \in SurrRatios : ratios = <<Num(r)>>
    /\ surr = <<>> /\ updates = 0 /\ clears = 0
    /\ batches = <<>>
    /\ stored = <<>>
    /\ dpc = "surrogate" /\ i_episode = 0 /\ t = 0 /\ max_step = 0 /\ max_episodes = 0

SurrApply ==
    /\ pc = "surrogate"
    /\ surr' = ClippedSurrogate(ratios, advantages, clip_epsilon)
    /\ pc' = "surrogate_done"
    /\ UNCHANGED <<memVars, cfgVars, params, last, batches, stored, drvVars>>
    /\ UNCHANGED <<t_states, t_rewards, t_values, t_old_log_probs, advantages,
                   epoch, start_idx, batch_indices, chunks, ratios, updates, clears>>

SurrNext == SurrApply

SurrSpec == SurrInit /\ [][SurrNext]_vars

(***************************************************************************)
(* Definitions the properties use.                                         *)
(***************************************************************************)
\* the buffer as a sequence of transitions
Buffer ==
    [i \in 1..Len(states) |->
        [state |-> states[i], action |-> actions[i], reward |-> rewards[i],
         value |-> values[i], log_prob |-> log_probs[i]]]

CeilDiv(n, d) == (n + d - 1) \div d

RECURSIVE Flatten(_)
Flatten(cs) == IF Len(cs) = 0 THEN <<>> ELSE Head(cs) \o Flatten(Tail(cs))

\* every index of 0..n-1 occurs exactly once in seq
IsPermutation(seq, n) ==
    /\ Len(seq) = n
    /\ \A x \in 0..(n - 1) : Cardinality({i \in 1..n : seq[i] = x}) = 1

\* every chunk but the last has bs indices, the last has 1..bs
ChunkSizesOk(cs, bs) ==
    /\ \A k \in 1..(Len(cs) - 1) : Len(cs[k]) = bs
    /\ Len(cs) > 0 => (Len(cs[Len(cs)]) >= 1 /\ Len(cs[Len(cs)]) <= bs)

\* cs partitions a permutation of 0..n-1 into consecutive chunks of bs
IsChunking(cs, n, bs) ==
    /\ IsPermutation(Flatten(cs), n)
    /\ ChunkSizesOk(cs, bs)

\* the GAE recurrence, A_t for 0-based t, with A_T = 0
RECURSIVE GaeRec(_, _, _)
GaeRec(rew, val, tt) ==
    IF tt >= Len(rew) THEN Num(0)
    ELSE LET next_value == IF tt = Len(rew) - 1 THEN Num(0) ELSE val[tt + 2]
             delta == FSub(FAdd(rew[tt + 1], FMul(Num(Gamma), next_value)),
                           val[tt + 1])
         IN  FAdd(delta, FMul(FMul(Num(Gamma), Num(GaeLambda)),
                              GaeRec(rew, val, tt + 1)))

\* the store calls ppo_inversion has still to make
RemainingStores ==
    CASE dpc = "episode" ->
           IF i_episode <= max_episodes
           THEN (max_episodes - i_episode + 1) * max_step ELSE 0
      [] dpc \in {"step", "store"} ->
           (max_step - t) + (max_episodes - i_episode) * max_step
      [] dpc = "evaluate" -> (max_episodes - i_episode) * max_step
      [] OTHER -> 0

(***************************************************************************)
(* The properties.                                                         *)
(***************************************************************************)

\* C1: in every reachable state the five lists of the memory have the same
\* length, whatever store, act, learn and clear calls were made.
C1_EqualLengths ==
    /\ Len(actions) = Len(states)
    /\ Len(rewards) = Len(states)
    /\ Len(values) = Len(states)
    /\ Len(log_probs) = Len(states)

\* C1 witness: a store after an update and some transitions in the buffer
C1_Witness == last = "store" /\ Len(states) >= 2 /\ params > 0

\* C2: a learn() call made with fewer than batch_size transitions returns at
\* once: the buffer and the parameters are as before and no update step ran.
C2_NoopFrame ==
    [][ (pc = "idle" /\ last' \in {"learn", "learn_noop"}
            /\ Len(states) < batch_size)
        => (/\ UNCHANGED memVars
            /\ params' = params
            /\ pc' = "idle"
            /\ updates' = 0) ]_vars

\* C2 witness: learn() has just returned without updating, transitions kept
C2_Witness ==
    last = "learn_noop" /\ Len(states) >= 1 /\ Len(states) < batch_size

\* C3: a learn() call made with at least batch_size transitions runs the
\* update; the buffer is untouched while the epochs run, is cleared once, when
\* the epoch loop is over, and all five lists are empty on return.
C3_ClearedOnceAtEnd ==
    /\ [][ (pc = "idle" /\ last' \in {"learn", "learn_noop"} /\ last' # last
               /\ Len(states) >= batch_size)
           => pc' = "gae" ]_vars
    /\ [](pc # "idle"
            => (clears = 0 /\ states = t_states /\ Len(states) >= batch_size))
    /\ [][ clears' # clears /\ pc # "idle"
           => (/\ pc = "epochs" /\ epoch = n_epochs
               /\ clears' = 1
               /\ pc' = "idle"
               /\ updates' = updates) ]_vars
    /\ [](last = "learn_end"
            => (/\ clears = 1
                /\ Len(states) = 0 /\ Len(actions) = 0 /\ Len(rewards) = 0
                /\ Len(values) = 0 /\ Len(log_probs) = 0))

\* C3 witness: learn() has returned from a call made with exactly batch_size
\* transitions and at least one update step
C3_Witness ==
    last = "learn_end" /\ updates = n_epochs /\ n_epochs >= 1 /\ Len(states) = 0

\* C4: before they are normalized, the advantages are the backward recurrence
\* A_t = delta_t + gamma * lambda * A_(t+1), A_T = 0, delta_t = r_t + gamma *
\* next_value - v_t, and the last one is r_(T-1) - v_(T-1).
C4_Gae ==
    pc = "normalize" =>
        LET T == Len(t_rewards)
        IN  /\ Len(advantages) = T
            /\ \A i \in 1..T : advantages[i] = GaeRec(t_rewards, t_values, i - 1)
            /\ T >= 1 => advantages[T] = FSub(t_rewards[T], t_values[T])

\* C4 witness: the advantages of three transitions, finite and not all equal
C4_Witness ==
    /\ pc = "normalize"
    /\ Len(advantages) = 3
    /\ ~advantages[1].nan
    /\ advantages[1] # advantages[3]
    /\ advantages[2] # advantages[3]

\* C5: for a ratio r > 0, a clip epsilon in (0, 1) and an advantage A, the
\* surrogate term min(r * A, clip(r, 1 - eps, 1 + eps) * A) is min(r, 1 + eps)
\* * A when A > 0 and max(r, 1 - eps) * A when A < 0.
C5_ClippedSurrogate ==
    pc = "surrogate_done" =>
        LET r == ratios[1]
            A == advantages[1]
            lo == Num(Scale - clip_epsilon)
            hi == Num(Scale + clip_epsilon)
        IN  /\ A.v > 0 => surr[1] = FMul(FMin(r, hi), A)
            /\ A.v < 0 => surr[1] = FMul(FMax(r, lo), A)

\* C5 witness: a positive advantage and a ratio above 1 + eps: the clipped
\* product is the smaller one
C5_Witness ==
    /\ pc = "surrogate_done"
    /\ advantages[1].v > 1
    /\ ratios[1].v > Scale + clip_epsilon
    /\ surr[1].v < FMul(ratios[1], advantages[1]).v

\* the steps a learn() call has still to take: those of the chunk loop and of
\* the epoch loop that are left, and the clear
StepsLeft ==
    LET perEpoch == CeilDiv(Len(t_states), batch_size) + 2
    IN  CASE pc = "gae" -> n_epochs * perEpoch + 3
          [] pc = "normalize" -> n_epochs * perEpoch + 2
          [] pc = "epochs" -> (n_epochs - epoch) * perEpoch + 1
          [] pc = "chunks" ->
               (IF start_idx < Len(t_states)
                THEN CeilDiv(Len(t_states) - start_idx, batch_size) ELSE 0)
               + 1 + (n_epochs - epoch - 1) * perEpoch + 1
          [] OTHER -> 0

\* C6: a learn() call that passes the guard returns: it can always take a
\* step and each step leaves one step less to take; it returns after n_epochs
\* * ceil(n / batch_size) update steps, each one step of the optimizers, none
\* when n_epochs is 0.
C6_UpdateCount ==
    /\ [](pc # "idle" => (ENABLED LearnStep /\ StepsLeft > 0))
    /\ [][ pc # "idle" => StepsLeft' = StepsLeft - 1 ]_vars
    /\ [](pc = "epochs"
            => (/\ epoch <= n_epochs
                /\ updates = epoch * CeilDiv(Len(states), batch_size)))
    /\ [][ pc = "epochs" /\ pc' = "idle"
           => (/\ epoch = n_epochs
               /\ last' = "learn_end"
               /\ updates' = n_epochs * CeilDiv(Len(states), batch_size)) ]_vars
    /\ [][ \/ (updates' = updates + 1 /\ params' = params + 1)
           \/ (updates' = 0 /\ params' = params)
           \/ (updates' = updates /\ params' = params) ]_vars

\* C6 witness: the epoch loop is over after two epochs of two chunks each
C6_Witness ==
    /\ pc = "epochs" /\ epoch = n_epochs /\ n_epochs = 2
    /\ Len(states) = 3 /\ batch_size = 2 /\ updates = 4

\* C7: the chunks of an epoch of learn(), and the batches generate_batches()
\* returns, are consecutive slices of one permutation of 0..n-1: each index is
\* in exactly one chunk, every chunk but the last has batch_size indices and
\* the last has between 1 and batch_size.
C7_Chunks ==
    /\ last = "generate_batches"
         => IsChunking(batches, Len(states), batch_size)
    /\ pc = "chunks"
         => (/\ IsPermutation(batch_indices, Len(states))
             /\ Flatten(chunks)
                  = SubSeq(batch_indices, 1, MinI(start_idx, Len(states)))
             /\ \A k \in 1..Len(chunks) :
                  chunks[k] = SubSeq(batch_indices, (k - 1) * batch_size + 1,
                                     MinI(k * batch_size, Len(states)))
             /\ start_idx < Len(states) => \A k \in 1..Len(chunks) :
                                              Len(chunks[k]) = batch_size)
    /\ (pc = "chunks" /\ start_idx >= Len(states))
         => (/\ IsChunking(chunks, Len(states), batch_size)
             /\ Flatten(chunks) = batch_indices)

\* C7 witness: an epoch over three transitions in chunks of two: a shuffled
\* permutation and a short last chunk
C7_Witness ==
    /\ pc = "chunks" /\ start_idx >= Len(states) /\ epoch = 1
    /\ Len(chunks) = 2 /\ Len(chunks[1]) = 2 /\ Len(chunks[2]) = 1
    /\ chunks[1][1] = 2

\* C8: in the episode loop, a learn() call below the threshold keeps the
\* transitions, so they accumulate over the rollouts; while the rollouts to
\* come can fill the buffer, it reaches batch_size and the learn() call made at
\* or above the threshold updates on all the transitions stored since the
\* previous update and empties the buffer.
C8_Accumulate ==
    /\ [][ (dpc = "step" /\ dpc' = "evaluate" /\ Len(states) < batch_size)
           => (UNCHANGED memVars /\ stored' = stored /\ pc' = "idle") ]_vars
    /\ [][ (dpc = "step" /\ dpc' = "evaluate" /\ Len(states) >= batch_size)
           => (pc' = "gae" /\ t_states' = states /\ UNCHANGED memVars) ]_vars
    /\ [](Buffer = stored)
    /\ [](pc # "idle" => Len(t_states) = Len(stored))
    /\ [][ (last' = "learn_end" /\ last # "learn_end")
           => (Len(states) >= batch_size /\ Len(states') = 0
               /\ stored' = <<>>) ]_vars
    /\ [](pc = "idle" /\ Len(states) + RemainingStores >= batch_size
            => <>(last = "learn_end" /\ Len(states) = 0))

\* C8 witness: an update on the transitions of two rollouts, after a learn()
\* call that kept those of the first
C8_Witness ==
    /\ pc = "gae"
    /\ i_episode = 2
    /\ params = 0
    /\ Len(t_states) = 2 * max_step

\* C9: between two clears the buffer is the sequence of the transitions passed
\* to store, in call order; act leaves it as it is.
C9_InsertionOrder == Buffer = stored

\* C9 witness: two different transitions stored after a clear, then act
C9_Witness ==
    /\ last = "act"
    /\ clears = 1
    /\ Len(states) = 2
    /\ stored[1] # stored[2]

\* C10: in ppo_inversion the buffer is shorter than batch_size right after each
\* learn() call, never longer than batch_size + max_step - 1, and at each
\* learn() call its length is a positive multiple of max_step.
C10_InversionLengths ==
    /\ (dpc = "evaluate" /\ pc = "idle") => Len(states) < batch_size
    /\ dpc \in {"episode", "step", "store", "evaluate", "done"}
         => Len(states) <= batch_size + max_step - 1
    /\ (dpc = "step" /\ t >= max_step)
         => (Len(states) > 0 /\ Len(states) % max_step = 0)

\* C10 witness: a learn() call on batch_size + max_step - 1 transitions
C10_Witness ==
    /\ dpc = "step" /\ t >= max_step
    /\ max_step = 2
    /\ i_episode >= 2
    /\ Len(states) = batch_size + max_step - 1

====
